---- MODULE Spec2Model ----
\* Runtime detection and selection of mango-habanero/otc, package
\* pkg/otc/runtime: the aggregating Detector (normal mode and OTC_RUNTIME
\* override mode), the binary-family ociDetector and sortByPriority.
\*
\* Conventions of the model:
\*   - a Go nil pointer / nil error is the empty sequence <<>>; a non-nil
\*     *Result or *Runtime is a one-element sequence holding the value;
\*   - an error value is the sequence of the parts of its message chain, so
\*     fmt.Errorf("... %w", err) is a prefix followed by the wrapped error;
\*   - text (a subprocess's standard output) is a sequence of one-character
\*     strings.
EXTENDS Integers, Sequences, FiniteSets, TLC

\* ------------------------------------------------------------------ bounds

\* longest runtime list a stubbed family detector returns on success
MaxRts == 2

\* longest runtime list a stubbed family detector returns next to an error
MaxErrRts == 1

\* --------------------------------------------------------------- data model

TypeOCI == "oci"

TypeCRI == "cri"

TypePodman == "podman"

PriorityCRI == 100

PriorityOCI == 70

PriorityPodman == 50

RNRunc == "runc"

RNCrun == "crun"

RNYouki == "youki"

RNContainerd == "containerd"

RNCRIO == "crio"

RNPodman == "podman"

RNDocker == "docker"

\* the Runtime struct
Runtime(name, type, version, path, priority) ==
    [Name |-> name, Type |-> type, Version |-> version, Path |-> path,
     Priority |-> priority]

\* the three detector fields of the Detector struct, in the order Detect
\* consults them
Families == <<"OCI", "CRI", "Podman">>

FamilySet == {"OCI", "CRI", "Podman"}

NoErr == <<>>

\* all sequences over S of length at most n
BSeq(S, n) == UNION {[1..k -> S] : k \in 0..n}

\* ------------------------------------------------------------ parseVersion

Whitespace == {" ", "\n", "\t"}

\* unicode.ToLower on the letters that occur in the modelled outputs
ToLower(c) ==
    CASE c = "V" -> "v"
      [] c = "E" -> "e"
      [] c = "R" -> "r"
      [] c = "S" -> "s"
      [] c = "I" -> "i"
      [] c = "O" -> "o"
      [] c = "N" -> "n"
      [] OTHER -> c

RECURSIVE FieldsFrom(_, _, _)
\* strings.Fields: the maximal runs of non-whitespace characters, in order
FieldsFrom(text, i, cur) ==
    IF i > Len(text)
    THEN IF cur = <<>> THEN <<>> ELSE <<cur>>
    ELSE IF text[i] \in Whitespace
         THEN (IF cur = <<>> THEN <<>> ELSE <<cur>>) \o FieldsFrom(text, i + 1, <<>>)
         ELSE FieldsFrom(text, i + 1, Append(cur, text[i]))

Fields(text) == FieldsFrom(text, 1, <<>>)

\* an exact comparison with "version"
EqualVersion(field) ==
    field = <<"v", "e", "r", "s", "i", "o", "n">>

\* strings.EqualFold(field, "version")
EqualFoldVersion(field) ==
    [k \in 1..Len(field) |-> ToLower(field[k])] = <<"v", "e", "r", "s", "i", "o", "n">>

RECURSIVE Join(_)
\* the Go string made of the characters of a field
Join(field) == IF field = <<>> THEN "" ELSE Head(field) \o Join(Tail(field))

RECURSIVE parseVersionFrom(_, _)
parseVersionFrom(fields, i) ==
    IF i > Len(fields) THEN ""
    ELSE IF EqualFoldVersion(fields[i]) /\ i + 1 <= Len(fields)
         THEN Join(fields[i + 1])
         ELSE parseVersionFrom(fields, i + 1)

parseVersion(output) == parseVersionFrom(Fields(output), 1)

\* --------------------------------------------------- outputs for parseVersion

\* the most tokens an output is composed of
MaxTokens == 3

\* "version"
TokVersion == <<"v", "e", "r", "s", "i", "o", "n">>

\* "Version"
TokVersionCap == <<"V", "e", "r", "s", "i", "o", "n">>

\* "VERSION"
TokVersionUpper == <<"V", "E", "R", "S", "I", "O", "N">>

\* "versions"
TokVersions == <<"v", "e", "r", "s", "i", "o", "n", "s">>

\* "runc"
TokRunc == <<"r", "u", "n", "c">>

\* "runtime"
TokRuntime == <<"r", "u", "n", "t", "i", "m", "e">>

\* "1.1.12"
TokV1112 == <<"1", ".", "1", ".", "1", "2">>

\* "1.2.3"
TokV123 == <<"1", ".", "2", ".", "3">>

\* "..."
TokDots == <<".", ".", ".">>

\* the tokens outputs are composed of
Tokens ==
    {TokVersion, TokVersionCap, TokVersionUpper, TokVersions, 
     TokRunc, TokRuntime, TokV1112, TokV123, TokDots}

\* the Go string of a token
TokenString(tok) ==
    CASE tok = TokVersion -> "version"
      [] tok = TokVersionCap -> "Version"
      [] tok = TokVersionUpper -> "VERSION"
      [] tok = TokVersions -> "versions"
      [] tok = TokRunc -> "runc"
      [] tok = TokRuntime -> "runtime"
      [] tok = TokV1112 -> "1.1.12"
      [] tok = TokV123 -> "1.2.3"
      [] tok = TokDots -> "..."

\* the tokens that are the word "version" in some casing
IsVersionWord(tok) == tok \in {TokVersion, TokVersionCap, TokVersionUpper}

\* the whitespace around and between the tokens of an output
Layouts ==
    {[lead |-> <<>>, sep |-> <<" ">>, trail |-> <<>>],
     [lead |-> <<"\n">>, sep |-> <<"\t", " ">>, trail |-> <<" ">>],
     [lead |-> <<>>, sep |-> <<"\n">>, trail |-> <<"\n">>]}

RECURSIVE Flat(_, _)
\* the tokens in order, sep between neighbours
Flat(toks, sep) ==
    IF toks = <<>> THEN <<>>
    ELSE IF Len(toks) = 1 THEN toks[1]
         ELSE toks[1] \o sep \o Flat(Tail(toks), sep)

\* the text of an output
Render(toks, layout) == layout.lead \o Flat(toks, layout.sep) \o layout.trail

\* "runc version 1.1.12 ..."
ExRuncVersion == <<"r", "u", "n", "c", " ", "v", "e", "r", "s", "i", "o", "n", " ", "1", ".", "1", ".", "1", "2", " ", ".", ".", ".">>

\* "runtime Version 1.2.3"
ExCapitalised == <<"r", "u", "n", "t", "i", "m", "e", " ", "V", "e", "r", "s", "i", "o", "n", " ", "1", ".", "2", ".", "3">>

\* "runtime 1.2.3"
ExNoKeyword == <<"r", "u", "n", "t", "i", "m", "e", " ", "1", ".", "2", ".", "3">>

\* "runtime version"
ExKeywordLast == <<"r", "u", "n", "t", "i", "m", "e", " ", "v", "e", "r", "s", "i", "o", "n">>

\* ""
ExEmpty == <<>>

\* the outputs of the examples, with the tokens they are made of
Examples ==
    {[tokens |-> <<TokRunc, TokVersion, TokV1112, TokDots>>, text |-> ExRuncVersion],
     [tokens |-> <<TokRuntime, TokVersionCap, TokV123>>, text |-> ExCapitalised],
     [tokens |-> <<TokRuntime, TokV123>>, text |-> ExNoKeyword],
     [tokens |-> <<TokRuntime, TokVersion>>, text |-> ExKeywordLast],
     [tokens |-> <<>>, text |-> ExEmpty]}

\* the outputs handed to parseVersion
ParseInputs ==
    Examples \cup
    {[tokens |-> toks, text |-> Render(toks, l)] : toks \in BSeq(Tokens, MaxTokens), l \in Layouts}

\* ------------------------------------------------------------- ociDetector

\* "r version 1.2\nc"
OutGood == <<"r", " ", "v", "e", "r", "s", "i", "o", "n", " ", "1", ".", "2", "\n", "c">>

\* "r Version 3"
OutFolded == <<"r", " ", "V", "e", "r", "s", "i", "o", "n", " ", "3">>

\* "r 1.2"
OutNoKeyword == <<"r", " ", "1", ".", "2">>

\* "r version"
OutKeywordLast == <<"r", " ", "v", "e", "r", "s", "i", "o", "n">>

Stdouts == {OutGood, OutFolded, OutNoKeyword, OutKeywordLast, <<>>}

\* what the host answers for one candidate binary: exec.LookPath, then the
\* exit status and standard output of `<path> --version`
Probes ==
    {[resolved |-> FALSE, exitOK |-> FALSE, stdout |-> <<>>, hangs |-> FALSE]}
    \cup [resolved : {TRUE}, exitOK : {FALSE}, stdout : {<<>>}, hangs : {FALSE}]
    \cup [resolved : {TRUE}, exitOK : {TRUE}, stdout : Stdouts, hangs : {FALSE}]

\* a candidate whose `--version` subprocess never exits
HangProbe == [resolved |-> TRUE, exitOK |-> FALSE, stdout |-> <<>>, hangs |-> TRUE]

runtimeNames == <<RNRunc, RNCrun, RNYouki>>

\* the hosts on which every version subprocess exits
Hosts == [{RNRunc, RNCrun, RNYouki} -> Probes]

\* all hosts
AllHosts == [{RNRunc, RNCrun, RNYouki} -> Probes \cup {HangProbe}]

\* the host with none of the candidates installed
BareHost == [n \in {RNRunc, RNCrun, RNYouki} |->
                [resolved |-> FALSE, exitOK |-> FALSE, stdout |-> <<>>, hangs |-> FALSE]]

\* exec.LookPath: the first resolution of the name on the search path
LookPath(name) == "/usr/bin/" \o name

\* extractVersion: [version, err]
extractVersion(host, name, path) ==
    IF ~host[name].exitOK
    THEN [version |-> "", err |-> <<"failed to execute --version", name>>]
    ELSE LET version == parseVersion(host[name].stdout)
         IN  IF version = ""
             THEN [version |-> "", err |-> <<"failed to parse version from output">>]
             ELSE [version |-> version, err |-> NoErr]

\* detectRuntime: [rt, err]
detectRuntime(host, name) ==
    IF ~host[name].resolved
    THEN [rt |-> <<>>, err |-> <<"not found in PATH", name>>]
    ELSE LET v == extractVersion(host, name, LookPath(name))
         IN  IF v.err # NoErr
             THEN [rt |-> <<>>, err |-> <<"failed to get version for", name>> \o v.err]
             ELSE [rt |-> <<Runtime(name, TypeOCI, v.version, LookPath(name), PriorityOCI)>>,
                   err |-> NoErr]

RECURSIVE ociScan(_, _)
ociScan(host, i) ==
    IF i > Len(runtimeNames) THEN <<>>
    ELSE LET r == detectRuntime(host, runtimeNames[i])
         IN  (IF r.err # NoErr THEN <<>> ELSE r.rt) \o ociScan(host, i + 1)

RECURSIVE ociFirstFailure(_, _)
\* the error of the first candidate that resolved but could not be queried
ociFirstFailure(host, i) ==
    IF i > Len(runtimeNames) THEN NoErr
    ELSE IF host[runtimeNames[i]].resolved /\ detectRuntime(host, runtimeNames[i]).err # NoErr
         THEN detectRuntime(host, runtimeNames[i]).err
         ELSE ociFirstFailure(host, i + 1)

\* a Detect that reports a candidate whose version query failed
ociDetectReportingFailure(host) ==
    [rts |-> ociScan(host, 1), err |-> ociFirstFailure(host, 1)]

\* ociDetector.Detect: [rts, err]
ociDetect(host) == [rts |-> ociScan(host, 1), err |-> NoErr]

\* ------------------------------------------------------ ContainerdDetector

\* the runtime name constant used by ContainerdDetector
Containerd == "containerd"

\* containerdSocketPaths, the socketPaths of NewContainerdDetector
socketPaths ==
    <<"/run/containerd/containerd.sock",
      "/var/run/containerd/containerd.sock",
      "/run/k3s/containerd/containerd.sock">>

\* ways the version query on a socket fails: grpc.NewClient returns an error,
\* or the Version call does because nobody accepts the connection, the server
\* answers with an error, or the deadline of the context (the caller's, or the
\* detector's timeout) expires or the context is cancelled
RPCFailures == {"no client", "unavailable", "rpc error", "deadline exceeded"}

\* versions a daemon reports
DaemonVersions == {"1.7.2", ""}

\* what the host holds at one socket path: nothing os.Stat succeeds on, a
\* regular file, a directory, or a socket with the fate of a Version call on it
PathStates ==
    [fs : {"absent", "file", "dir"}, rpc : {"none"}, version : {""}]
    \cup [fs : {"socket"}, rpc : RPCFailures, version : {""}]
    \cup [fs : {"socket"}, rpc : {"ok"}, version : DaemonVersions]

SocketHosts == [1..Len(socketPaths) -> PathStates]

\* the host with nothing at any socket path
NoSockets == [i \in 1..Len(socketPaths) |-> [fs |-> "absent", rpc |-> "none", version |-> ""]]

RECURSIVE findSocketAnyFileFrom(_, _)
\* a search that takes the first path that exists
findSocketAnyFileFrom(h, i) ==
    IF i > Len(socketPaths)
    THEN [path |-> "", err |-> <<"no accessible socket found in", socketPaths>>]
    ELSE IF h[i].fs = "absent"
         THEN findSocketAnyFileFrom(h, i + 1)
         ELSE [path |-> socketPaths[i], err |-> NoErr]

findSocketAnyFile(h) == findSocketAnyFileFrom(h, 1)

RECURSIVE findSocketFrom(_, _)
\* the loop of findSocket from path i on
findSocketFrom(h, i) ==
    IF i > Len(socketPaths)
    THEN [path |-> "", err |-> <<"no accessible socket found in", socketPaths>>]
    ELSE IF h[i].fs = "absent"
         THEN findSocketFrom(h, i + 1)
         ELSE IF h[i].fs # "socket"
              THEN findSocketFrom(h, i + 1)
              ELSE [path |-> socketPaths[i], err |-> NoErr]

\* findSocket: [path, err]
findSocket(h) == findSocketFrom(h, 1)

\* index of a path in socketPaths
PathIndex(path) == CHOOSE i \in 1..Len(socketPaths) : socketPaths[i] = path

\* getVersion: [version, err]
getVersion(h, socketPath) ==
    LET st == h[PathIndex(socketPath)]
    IN  IF st.rpc = "no client"
        THEN [version |-> "", err |-> <<"failed to create gRPC client", st.rpc>>]
        ELSE IF st.rpc # "ok"
             THEN [version |-> "", err |-> <<"CRI Version call failed", st.rpc>>]
             ELSE [version |-> st.version, err |-> NoErr]

\* a runtime whose path is the dial target
containerdRuntimeWithTarget(version, socket) ==
    Runtime(Containerd, TypeCRI, version, "unix://" \o socket, PriorityCRI)

\* the Runtime ContainerdDetector.Detect reports
containerdRuntime(version, socket) ==
    Runtime(Containerd, TypeCRI, version, socket, PriorityCRI)

\* ------------------------------------------------ family detector outcomes

\* runtimes a stubbed implementation of each detector interface reports
StubRuntimes(f) ==
    CASE f = "OCI" ->
           {Runtime(RNRunc, TypeOCI, "1.1.12", "/usr/bin/runc", PriorityOCI),
            Runtime(RNCrun, TypeOCI, "1.8.7", "/usr/bin/crun", PriorityOCI),
            Runtime(RNYouki, TypeOCI, "0.3.3", "/usr/bin/youki", PriorityOCI)}
      [] f = "CRI" ->
           {Runtime(RNContainerd, TypeCRI, "1.7.2", "/run/containerd/containerd.sock", PriorityCRI),
            Runtime(RNCRIO, TypeCRI, "1.30.0", "/var/run/crio/crio.sock", PriorityCRI)}
      [] f = "Podman" ->
           {Runtime(RNPodman, TypePodman, "5.0.1", "/run/podman/podman.sock", PriorityPodman),
            Runtime(RNPodman, TypePodman, "5.0.1", "/run/user/1000/podman/podman.sock", PriorityPodman)}

\* errors a stubbed implementation of each detector interface reports
StubErrors(f) ==
    CASE f = "OCI" -> {<<"oci probe failed">>}
      [] f = "CRI" -> {<<"containerd socket not found">>,
                       <<"failed to get containerd version from CRI">>}
      [] f = "Podman" -> {<<"podman socket not found">>}

\* the (runtimes, error) pairs a detector of the given kind can return
Outcomes(f, kind) ==
    IF kind = "oci"
    THEN {ociDetect(h) : h \in Hosts}
    ELSE [rts : BSeq(StubRuntimes(f), MaxRts), err : {NoErr}]
         \cup [rts : BSeq(StubRuntimes(f), MaxErrRts), err : StubErrors(f)]

\* the values the oci, cri and podman fields of a Detector take: nil, the
\* repository's ociDetector, or another implementation of the interface
Kinds(f) == IF f = "OCI" THEN {"nil", "oci", "stub"} ELSE {"nil", "stub"}

\* values of the override field
OverrideValues ==
    {"", RNRunc, RNCrun, RNYouki, RNContainerd, RNCRIO, RNPodman, RNDocker,
     "invalid-runtime", "RUNC"}

\* ---------------------------------------------------------- sortByPriority

\* a comparison that also holds between equal priorities
LessOrEqual(a, b) == a.Priority >= b.Priority

\* the less function handed to sort.SliceStable
Less(a, b) == a.Priority > b.Priority

RECURSIVE SinkLeft(_, _)
\* the inner loop of the insertion sort: swap the element at j leftwards
\* while it is less than its left neighbour
SinkLeft(s, j) ==
    IF j > 1 /\ Less(s[j], s[j - 1])
    THEN SinkLeft([s EXCEPT ![j] = s[j - 1], ![j - 1] = s[j]], j - 1)
    ELSE s

RECURSIVE InsertionSortFrom(_, _)
InsertionSortFrom(s, i) ==
    IF i > Len(s) THEN s ELSE InsertionSortFrom(SinkLeft(s, i), i + 1)

sortByPriority(runtimes) == InsertionSortFrom(runtimes, 2)

\* ------------------------------------------------------ getOverrideFromEnv

\* states of the environment variable OTC_RUNTIME
EnvUnset == [set |-> FALSE, value |-> <<>>]

EnvEmpty == [set |-> TRUE, value |-> <<>>]

\* " \t"
EnvBlank == [set |-> TRUE, value |-> <<" ", "\t">>]

\* "runc"
EnvRunc == [set |-> TRUE, value |-> <<"r", "u", "n", "c">>]

\* "  runc  "
EnvRuncPadded == [set |-> TRUE, value |-> <<" ", " ", "r", "u", "n", "c", " ", " ">>]

\* "\tcrio\n"
EnvCrioPadded == [set |-> TRUE, value |-> <<"\t", "c", "r", "i", "o", "\n">>]

\* " a b "
EnvInnerSpace == [set |-> TRUE, value |-> <<" ", "a", " ", "b", " ">>]

EnvValues ==
    {EnvUnset, EnvEmpty, EnvBlank, EnvRunc, EnvRuncPadded, EnvCrioPadded, EnvInnerSpace}

\* os.Getenv: the value, the empty string for an unset variable
Getenv(e) == IF e.set THEN e.value ELSE <<>>

RECURSIVE TrimLeft(_)
TrimLeft(text) ==
    IF text # <<>> /\ Head(text) \in Whitespace THEN TrimLeft(Tail(text)) ELSE text

RECURSIVE TrimRight(_)
TrimRight(text) ==
    IF text # <<>> /\ text[Len(text)] \in Whitespace
    THEN TrimRight(SubSeq(text, 1, Len(text) - 1))
    ELSE text

\* strings.TrimSpace
TrimSpace(text) == TrimRight(TrimLeft(text))

\* reading the variable without trimming it
getOverrideUntrimmed(e) == Join(Getenv(e))

getOverrideFromEnv(e) == Join(TrimSpace(Getenv(e)))

\* the detectors handed to NewDetector where the environment is modelled
NewDetectorArgs ==
    [oci : {"nil", "oci"}, cri : {"nil", "stub"}, podman : {"nil"}]

\* ------------------------------------------------------------------- state

VARIABLES
    oci,        \* Detector.oci: the kind of OCIDetector supplied, "nil" if none
    cri,        \* Detector.cri
    podman,     \* Detector.podman
    override,   \* Detector.override
    pc,         \* position of the running Detect call
    runtimes,   \* Detect's local slice runtimes
    warnings,   \* Detect's local slice warnings
    calls,      \* families whose detector the running call has invoked, in order
    rets,       \* per family, what its detector returned on each invocation
    result,     \* the *Result the last call returned (<<>> is nil)
    err,        \* the error the last call returned (<<>> is nil)
    probed,     \* the host state ociDetector saw in the running call (<<>>: not run)
    env,        \* the environment variable OTC_RUNTIME
    ohost,      \* ociDetector.Detect on its own: the host it runs on
    opc,        \* position of the running ociDetector.Detect call
    oidx,       \* index into runtimeNames of the candidate of the current iteration
    ofound,     \* ociDetector.Detect's local slice found
    oret,       \* what the last ociDetector.Detect call returned (<<>>: nothing yet)
    shost,      \* ContainerdDetector.Detect on its own: the host it runs on
    cpc,        \* position of the running ContainerdDetector.Detect call
    cfound,     \* what findSocket returned in the running call (<<>>: not yet)
    cdials,     \* targets of the gRPC clients the running call has created
    cret,       \* what the last ContainerdDetector.Detect call returned
    pin,        \* parseVersion on its own: the output handed to it
    pout,       \* what parseVersion returned (<<>>: not yet called)
    lpc,        \* the override-unaware Detect: position of its running call
    lruntimes,  \* its local `runtimes`
    lwarnings,  \* its local `warnings`
    lcalls,     \* families whose detector it has invoked, in order
    lrets,      \* per family, what the detector returned to it
    lresult,    \* the *Result it returned (<<>>: nil)
    lerr        \* the error it returned

vars == <<oci, cri, podman, override, pc, runtimes, warnings, calls, rets, result, err, probed, env,
          ohost, opc, oidx, ofound, oret, shost, cpc, cfound, cdials, cret, pin, pout,
          lpc, lruntimes, lwarnings, lcalls, lrets, lresult, lerr>>

\* state outside the Detector and its running call
outside ==
    <<env, ohost, opc, oidx, ofound, oret, shost, cpc, cfound, cdials, cret, pin, pout,
      lpc, lruntimes, lwarnings, lcalls, lrets, lresult, lerr>>

ociVars == <<ohost, opc, oidx, ofound, oret>>

criVars == <<shost, cpc, cfound, cdials, cret>>

parseVars == <<pin, pout>>

legacyVars == <<lpc, lruntimes, lwarnings, lcalls, lrets, lresult, lerr>>

\* the Detector, its running call and the environment
detectorVars ==
    <<oci, cri, podman, override, pc, runtimes, warnings, calls, rets, result, err,
      probed, env>>

\* everything but ociVars
nonOciVars == <<detectorVars, criVars, parseVars, legacyVars>>

\* everything but criVars
nonCriVars == <<detectorVars, ociVars, parseVars, legacyVars>>

\* everything but parseVars
nonParseVars == <<detectorVars, ociVars, criVars, legacyVars>>

\* everything but legacyVars
nonLegacyVars == <<detectorVars, ociVars, criVars, parseVars>>

\* no ContainerdDetector.Detect call of its own is modelled
CriIdle ==
    /\ shost = NoSockets
    /\ cpc = "idle"
    /\ cfound = <<>>
    /\ cdials = <<>>
    /\ cret = <<>>

\* no parseVersion call of its own is modelled
ParseIdle ==
    /\ pin = <<>>
    /\ pout = <<>>

\* no call of the override-unaware Detect made
LegacyIdle ==
    /\ lpc = "idle"
    /\ lruntimes = <<>>
    /\ lwarnings = <<>>
    /\ lcalls = <<>>
    /\ lrets = [f \in {"OCI", "CRI", "Podman"} |-> <<>>]
    /\ lresult = <<>>
    /\ lerr = <<>>

\* no ociDetector.Detect call of its own is modelled
OciIdle ==
    /\ ohost = BareHost
    /\ opc = "idle"
    /\ oidx = 0
    /\ ofound = <<>>
    /\ oret = <<>>

EnvIdle == env = EnvUnset

config == <<oci, cri, podman, override, outside>>

\* the detector field of a family
Field(f) == CASE f = "OCI" -> oci [] f = "CRI" -> cri [] f = "Podman" -> podman

NoRets == [f \in FamilySet |-> <<>>]

\* the state after the Detector struct is built: any combination of supplied
\* detectors and any override value, no call made yet
Init ==
    /\ oci \in Kinds("OCI")
    /\ cri \in Kinds("CRI")
    /\ podman \in Kinds("Podman")
    /\ override \in OverrideValues
    /\ pc = "idle"
    /\ runtimes = <<>>
    /\ warnings = <<>>
    /\ calls = <<>>
    /\ rets = NoRets
    /\ result = <<>>
    /\ err = NoErr
    /\ probed = <<>>
    /\ EnvIdle
    /\ OciIdle
    /\ CriIdle
    /\ ParseIdle
    /\ LegacyIdle

\* ------------------------------------------------------ Detect, normal mode

\* entry of Detect: fresh locals, then the dispatch on the override field
Detect ==
    /\ pc \in {"idle", "done"}
    /\ runtimes' = <<>>
    /\ warnings' = <<>>
    /\ calls' = <<>>
    /\ rets' = NoRets
    /\ result' = <<>>
    /\ err' = NoErr
    /\ probed' = <<>>
    /\ pc' = IF override # "" THEN "override" ELSE "oci"
    /\ UNCHANGED config

\* the host states under which a detector of the given kind returns out:
\* the value of probed after the call (unchanged for a stub)
ProbedBy(kind, out, before) ==
    IF kind = "oci"
    THEN {<<h>> : h \in {g \in Hosts : ociDetect(g) = out}}
    ELSE {before}

\* appending the returned runtimes whatever the returned error
FoldRuntimesIgnoringErr(rs, out) == rs \o out.rts

\* what one detector's return adds to the runtimes slice
FoldRuntimes(rs, out) == IF out.err # NoErr THEN rs ELSE rs \o out.rts

\* what one detector's return adds to the warnings slice
FoldWarnings(ws, out) == IF out.err # NoErr THEN Append(ws, out.err) ELSE ws

\* a block that gives up on its detector once an earlier one has failed
InvokeDetectorUnlessFailed(f, here, next) ==
    /\ pc = here
    /\ IF Field(f) # "nil" /\ warnings = <<>>
       THEN \E out \in Outcomes(f, Field(f)) :
                /\ calls' = Append(calls, f)
                /\ rets' = [rets EXCEPT ![f] = Append(@, out)]
                /\ runtimes' = IF out.err # NoErr THEN runtimes ELSE runtimes \o out.rts
                /\ warnings' = IF out.err # NoErr THEN Append(warnings, out.err) ELSE warnings
                /\ probed' \in ProbedBy(Field(f), out, probed)
       ELSE UNCHANGED <<calls, rets, runtimes, warnings, probed>>
    /\ pc' = next
    /\ UNCHANGED <<config, result, err>>

\* one `if d.<field> != nil { ... }` block of Detect
InvokeDetector(f, here, next) ==
    /\ pc = here
    /\ IF Field(f) # "nil"
       THEN \E out \in Outcomes(f, Field(f)) :
                /\ calls' = Append(calls, f)
                /\ rets' = [rets EXCEPT ![f] = Append(@, out)]
                /\ runtimes' = FoldRuntimes(runtimes, out)
                /\ warnings' = FoldWarnings(warnings, out)
                /\ probed' \in ProbedBy(Field(f), out, probed)
       ELSE UNCHANGED <<calls, rets, runtimes, warnings, probed>>
    /\ pc' = next
    /\ UNCHANGED <<config, result, err>>

DetectOCI == InvokeDetector("OCI", "oci", "cri")

DetectCRI == InvokeDetector("CRI", "cri", "podman")

DetectPodman == InvokeDetector("Podman", "podman", "return")

\* the escalation test: nothing found and something failed
AllFailed(rs, ws) == Len(rs) = 0 /\ Len(ws) > 0

\* escalating with the most recent warning
LastWarning(ws) == ws[Len(ws)]

\* the error of the escalation
FirstWarning(ws) == ws[1]

\* selecting the last element
SelectLast(rs) == IF Len(rs) > 0 THEN <<rs[Len(rs)]>> ELSE <<>>

\* result.Selected: a pointer to the first element, nil for an empty slice
Select(rs) == IF Len(rs) > 0 THEN <<rs[1]>> ELSE <<>>

\* returning a nil *Result when nothing was found
NormalResultNilWhenEmpty(rs, ws) ==
    IF Len(rs) = 0
    THEN <<>>
    ELSE <<[Runtimes |-> sortByPriority(rs),
            Selected |-> <<sortByPriority(rs)[1]>>,
            Warnings |-> ws]>>

\* the *Result of a normal-mode call
NormalResult(rs, ws) ==
    LET sorted == sortByPriority(rs)
    IN  <<[Runtimes |-> sorted, Selected |-> Select(sorted), Warnings |-> ws]>>

\* the tail of Detect: escalate, or sort, select and return
DetectReturn ==
    /\ pc = "return"
    /\ IF AllFailed(runtimes, warnings)
       THEN /\ result' = <<>>
            /\ err' = FirstWarning(warnings)
            /\ UNCHANGED runtimes
       ELSE /\ runtimes' = sortByPriority(runtimes)
            /\ result' = NormalResult(runtimes, warnings)
            /\ err' = NoErr
    /\ pc' = "done"
    /\ UNCHANGED <<config, warnings, calls, rets, probed>>

\* ---------------------------------------------------------- detectOverride

\* a switch that sends crio to the Podman detector
FamilyOfCrioAsPodman(name) ==
    CASE name \in {RNRunc, RNCrun, RNYouki} -> "OCI"
      [] name = RNContainerd -> "CRI"
      [] name \in {RNCRIO, RNPodman} -> "Podman"
      [] name = RNDocker -> "Docker"
      [] OTHER -> "invalid"

\* a switch without the docker case
FamilyOfWithoutDocker(name) ==
    CASE name \in {RNRunc, RNCrun, RNYouki} -> "OCI"
      [] name \in {RNContainerd, RNCRIO} -> "CRI"
      [] name = RNPodman -> "Podman"
      [] OTHER -> "invalid"

\* a switch that matches the binary-family names without regard to case
FamilyOfAnyCase(name) ==
    CASE name \in {RNRunc, RNCrun, RNYouki, "RUNC"} -> "OCI"
      [] name \in {RNContainerd, RNCRIO} -> "CRI"
      [] name = RNPodman -> "Podman"
      [] name = RNDocker -> "Docker"
      [] OTHER -> "invalid"

\* the case of detectOverride's switch a name falls in
FamilyOf(name) ==
    CASE name \in {RNRunc, RNCrun, RNYouki} -> "OCI"
      [] name \in {RNContainerd, RNCRIO} -> "CRI"
      [] name = RNPodman -> "Podman"
      [] name = RNDocker -> "Docker"
      [] OTHER -> "invalid"

\* consulting the first supplied detector when the family's own is nil
DetectorOrFallback(fam) ==
    IF Field(fam) # "nil" THEN Field(fam)
    ELSE IF oci # "nil" THEN oci
    ELSE IF cri # "nil" THEN cri
    ELSE podman

\* the detector a case of the switch consults
DetectorOf(fam) == Field(fam)

\* keeping every entry
FilterNothing(rs, name) == rs

\* the entries of rs whose Name is name, in order
FilterByName(rs, name) == SelectSeq(rs, LAMBDA rt : rt.Name = name)

\* treating the detector's failure as normal mode does: a warning in a result
OverrideReturnWithWarning(name, out) ==
    IF out.err # NoErr
    THEN [result |-> <<[Runtimes |-> <<>>, Selected |-> <<>>, Warnings |-> <<out.err>>]>>,
          err |-> NoErr]
    ELSE LET filtered == SelectSeq(out.rts, LAMBDA rt : rt.Name = name)
         IN  IF Len(filtered) = 0
             THEN [result |-> <<>>, err |-> <<"runtime not found on system", name>>]
             ELSE [result |-> <<[Runtimes |-> filtered,
                                 Selected |-> <<filtered[1]>>,
                                 Warnings |-> <<>>]>>,
                   err |-> NoErr]

\* the return of detectOverride once the detector has returned out
OverrideReturn(name, out) ==
    IF out.err # NoErr
    THEN [result |-> <<>>, err |-> <<"failed to detect runtime", name>> \o out.err]
    ELSE LET filtered == FilterByName(out.rts, name)
         IN  IF Len(filtered) = 0
             THEN [result |-> <<>>, err |-> <<"runtime not found on system", name>>]
             ELSE [result |-> <<[Runtimes |-> filtered,
                                 Selected |-> <<filtered[1]>>,
                                 Warnings |-> <<>>]>>,
                   err |-> NoErr]

detectOverride ==
    /\ pc = "override"
    /\ LET fam == FamilyOf(override)
       IN  CASE fam = "invalid" ->
                  /\ result' = <<>>
                  /\ err' = <<"invalid OTC_RUNTIME value", override>>
                  /\ UNCHANGED <<calls, rets, runtimes, probed>>
             [] fam = "Docker" ->
                  /\ result' = <<>>
                  /\ err' = <<"docker runtime not yet supported">>
                  /\ UNCHANGED <<calls, rets, runtimes, probed>>
             [] OTHER ->
                  IF DetectorOf(fam) = "nil"
                  THEN /\ result' = <<>>
                       /\ err' = <<"detector not configured", fam, override>>
                       /\ UNCHANGED <<calls, rets, runtimes, probed>>
                  ELSE \E out \in Outcomes(fam, DetectorOf(fam)) :
                           /\ calls' = Append(calls, fam)
                           /\ rets' = [rets EXCEPT ![fam] = Append(@, out)]
                           /\ runtimes' = out.rts
                           /\ probed' \in ProbedBy(DetectorOf(fam), out, probed)
                           /\ result' = OverrideReturn(override, out).result
                           /\ err' = OverrideReturn(override, out).err
    /\ pc' = "done"
    /\ UNCHANGED <<config, warnings>>

\* -------------------------------------------------------------- NewDetector

\* NewDetector: a Detector with the supplied detectors and the override read
\* from the environment
NewDetector ==
    /\ pc \in {"new", "idle", "done"}
    /\ \E args \in NewDetectorArgs :
           /\ oci' = args.oci
           /\ cri' = args.cri
           /\ podman' = args.podman
    /\ override' = getOverrideFromEnv(env)
    /\ pc' = "idle"
    /\ runtimes' = <<>>
    /\ warnings' = <<>>
    /\ calls' = <<>>
    /\ rets' = NoRets
    /\ result' = <<>>
    /\ err' = NoErr
    /\ probed' = <<>>
    /\ UNCHANGED outside

\* os.Setenv / os.Unsetenv of OTC_RUNTIME by the surrounding program, at any
\* moment
Setenv ==
    /\ env' \in EnvValues \ {env}
    /\ UNCHANGED <<oci, cri, podman, override, pc, runtimes, warnings, calls, rets,
                   result, err, probed, ociVars, criVars, parseVars, legacyVars>>

\* no Detector built yet
NoDetector ==
    /\ oci = "nil"
    /\ cri = "nil"
    /\ podman = "nil"
    /\ override = ""
    /\ pc = "new"
    /\ runtimes = <<>>
    /\ warnings = <<>>
    /\ calls = <<>>
    /\ rets = NoRets
    /\ result = <<>>
    /\ err = NoErr
    /\ probed = <<>>

InitEnv ==
    /\ NoDetector
    /\ env \in EnvValues
    /\ OciIdle
    /\ CriIdle
    /\ ParseIdle
    /\ LegacyIdle

\* ------------------------------------------- ociDetector.Detect, step by step

InitOCI ==
    /\ NoDetector
    /\ EnvIdle
    /\ CriIdle
    /\ ParseIdle
    /\ LegacyIdle
    /\ ohost \in AllHosts
    /\ opc = "idle"
    /\ oidx = 0
    /\ ofound = <<>>
    /\ oret = <<>>

\* entry of ociDetector.Detect
ociDetectCall ==
    /\ opc \in {"idle", "done"}
    /\ opc' = "scan"
    /\ oidx' = 1
    /\ ofound' = <<>>
    /\ oret' = <<>>
    /\ UNCHANGED <<ohost, nonOciVars>>

\* an iteration that ends the scan at the first candidate it cannot use
ociDetectLoopBreak ==
    /\ opc = "scan"
    /\ oidx <= Len(runtimeNames)
    /\ ~(ohost[runtimeNames[oidx]].resolved /\ ohost[runtimeNames[oidx]].hangs)
    /\ LET r == detectRuntime(ohost, runtimeNames[oidx])
       IN  /\ ofound' = (IF r.err # NoErr THEN ofound ELSE ofound \o r.rt)
           /\ oidx' = (IF r.err # NoErr THEN Len(runtimeNames) + 1 ELSE oidx + 1)
    /\ UNCHANGED <<ohost, opc, oret, nonOciVars>>

\* one iteration of the loop over runtimeNames; cmd.Run waits for the
\* subprocess, so the iteration completes only if the subprocess exits
ociDetectLoop ==
    /\ opc = "scan"
    /\ oidx <= Len(runtimeNames)
    /\ ~(ohost[runtimeNames[oidx]].resolved /\ ohost[runtimeNames[oidx]].hangs)
    /\ LET r == detectRuntime(ohost, runtimeNames[oidx])
       IN  ofound' = (IF r.err # NoErr THEN ofound ELSE ofound \o r.rt)
    /\ oidx' = oidx + 1
    /\ UNCHANGED <<ohost, opc, oret, nonOciVars>>

\* `return found, nil`
ociDetectReturn ==
    /\ opc = "scan"
    /\ oidx > Len(runtimeNames)
    /\ oret' = <<[rts |-> ofound, err |-> NoErr]>>
    /\ opc' = "done"
    /\ UNCHANGED <<ohost, oidx, ofound, nonOciVars>>

NextOCI ==
    \/ ociDetectCall
    \/ ociDetectLoop
    \/ ociDetectReturn

\* ociDetector.Detect on any host
SpecOCI == InitOCI /\ [][NextOCI]_vars

\* the same, with the scheduling of a single goroutine: a step that can be
\* taken is taken
FairSpecOCI == InitOCI /\ [][NextOCI]_vars /\ WF_vars(NextOCI)

\* ------------------------------------ ContainerdDetector.Detect, step by step

InitCRI ==
    /\ NoDetector
    /\ EnvIdle
    /\ OciIdle
    /\ ParseIdle
    /\ LegacyIdle
    /\ shost \in SocketHosts
    /\ cpc = "idle"
    /\ cfound = <<>>
    /\ cdials = <<>>
    /\ cret = <<>>

\* entry of ContainerdDetector.Detect
containerdDetectCall ==
    /\ cpc \in {"idle", "done"}
    /\ cpc' = "findSocket"
    /\ cfound' = <<>>
    /\ cdials' = <<>>
    /\ cret' = <<>>
    /\ UNCHANGED <<shost, nonCriVars>>

\* the call of findSocket and the return on its error
containerdFindSocket ==
    /\ cpc = "findSocket"
    /\ cfound' = <<findSocket(shost)>>
    /\ IF findSocket(shost).err # NoErr
       THEN /\ cret' = <<[rts |-> <<>>,
                          err |-> <<"containerd socket not found">> \o findSocket(shost).err]>>
            /\ cpc' = "done"
       ELSE /\ cret' = <<>>
            /\ cpc' = "getVersion"
    /\ UNCHANGED <<shost, cdials, nonCriVars>>

\* a version query whose failure is passed over in silence
containerdGetVersionSkipping ==
    /\ cpc = "getVersion"
    /\ cdials' = Append(cdials, "unix://" \o cfound[1].path)
    /\ LET v == getVersion(shost, cfound[1].path)
       IN  cret' = IF v.err # NoErr
                   THEN <<[rts |-> <<>>, err |-> NoErr]>>
                   ELSE <<[rts |-> <<containerdRuntime(v.version, cfound[1].path)>>,
                           err |-> NoErr]>>
    /\ cpc' = "done"
    /\ UNCHANGED <<shost, cfound, nonCriVars>>

\* the call of getVersion on the socket found and the return of Detect
containerdGetVersion ==
    /\ cpc = "getVersion"
    /\ cdials' = Append(cdials, "unix://" \o cfound[1].path)
    /\ LET v == getVersion(shost, cfound[1].path)
       IN  cret' = IF v.err # NoErr
                   THEN <<[rts |-> <<>>,
                           err |-> <<"failed to get containerd version from CRI">> \o v.err]>>
                   ELSE <<[rts |-> <<containerdRuntime(v.version, cfound[1].path)>>,
                           err |-> NoErr]>>
    /\ cpc' = "done"
    /\ UNCHANGED <<shost, cfound, nonCriVars>>

NextCRI ==
    \/ containerdDetectCall
    \/ containerdFindSocket
    \/ containerdGetVersion

\* ContainerdDetector.Detect on any host
SpecCRI == InitCRI /\ [][NextCRI]_vars

\* ------------------------------------------------------ parseVersion, called

InitParse ==
    /\ NoDetector
    /\ EnvIdle
    /\ OciIdle
    /\ CriIdle
    /\ LegacyIdle
    /\ pin \in {<<in>> : in \in ParseInputs}
    /\ pout = <<>>

\* one call of parseVersion on the output
parseVersionCall ==
    /\ Len(pin) = 1
    /\ pout = <<>>
    /\ pout' = <<parseVersion(pin[1].text)>>
    /\ UNCHANGED <<pin, nonParseVars>>

NextParse == parseVersionCall

\* parseVersion on any output
SpecParse == InitParse /\ [][NextParse]_vars

\* -------------------------------------------- the override-unaware Detect

\* the override values under which the two orchestrators are run side by side
LegacyOverrides == {"", RNRunc}

\* the override-aware Detector as built, the override-unaware one over the
\* same three detectors, no call made on either
InitLegacy ==
    /\ Init
    /\ override \in LegacyOverrides

\* what a detector returns to the override-unaware Detect: what it returned
\* to the override-aware call just made, if that call invoked it
LegacyOutcomes(f) ==
    IF rets[f] # <<>> THEN {rets[f][1]} ELSE Outcomes(f, Field(f))

\* entry of the override-unaware Detect, after a call of the override-aware
\* one: fresh locals
LegacyDetect ==
    /\ lpc \in {"idle", "done"}
    /\ pc = "done"
    /\ lruntimes' = <<>>
    /\ lwarnings' = <<>>
    /\ lcalls' = <<>>
    /\ lrets' = NoRets
    /\ lresult' = <<>>
    /\ lerr' = NoErr
    /\ lpc' = "oci"
    /\ UNCHANGED nonLegacyVars

\* one `if d.<field> != nil { ... }` block of the override-unaware Detect
LegacyInvokeDetector(f, here, next) ==
    /\ lpc = here
    /\ IF Field(f) # "nil"
       THEN \E out \in LegacyOutcomes(f) :
                /\ lcalls' = Append(lcalls, f)
                /\ lrets' = [lrets EXCEPT ![f] = Append(@, out)]
                /\ lruntimes' = FoldRuntimes(lruntimes, out)
                /\ lwarnings' = FoldWarnings(lwarnings, out)
       ELSE UNCHANGED <<lcalls, lrets, lruntimes, lwarnings>>
    /\ lpc' = next
    /\ UNCHANGED <<lresult, lerr, nonLegacyVars>>

LegacyDetectOCI == LegacyInvokeDetector("OCI", "oci", "cri")

LegacyDetectCRI == LegacyInvokeDetector("CRI", "cri", "podman")

LegacyDetectPodman == LegacyInvokeDetector("Podman", "podman", "return")

\* a tail that returns the runtimes in the order they were found
LegacyDetectReturnUnsorted ==
    /\ lpc = "return"
    /\ IF AllFailed(lruntimes, lwarnings)
       THEN /\ lresult' = <<>>
            /\ lerr' = FirstWarning(lwarnings)
       ELSE /\ lresult' = <<[Runtimes |-> lruntimes,
                             Selected |-> Select(lruntimes),
                             Warnings |-> lwarnings]>>
            /\ lerr' = NoErr
    /\ lpc' = "done"
    /\ UNCHANGED <<lruntimes, lwarnings, lcalls, lrets, nonLegacyVars>>

\* the tail of the override-unaware Detect: escalate, or sort, select and
\* return
LegacyDetectReturn ==
    /\ lpc = "return"
    /\ IF AllFailed(lruntimes, lwarnings)
       THEN /\ lresult' = <<>>
            /\ lerr' = FirstWarning(lwarnings)
            /\ UNCHANGED lruntimes
       ELSE /\ lruntimes' = sortByPriority(lruntimes)
            /\ lresult' = NormalResult(lruntimes, lwarnings)
            /\ lerr' = NoErr
    /\ lpc' = "done"
    /\ UNCHANGED <<lwarnings, lcalls, lrets, nonLegacyVars>>

\* a call of the override-aware Detect, made before the override-unaware
\* Detect is called: the last such call is the one the two are compared on
DetectBeforeLegacy ==
    /\ lpc = "idle"
    /\ Detect

NextLegacy ==
    \/ DetectBeforeLegacy
    \/ DetectOCI
    \/ DetectCRI
    \/ DetectPodman
    \/ DetectReturn
    \/ detectOverride
    \/ LegacyDetect
    \/ LegacyDetectOCI
    \/ LegacyDetectCRI
    \/ LegacyDetectPodman
    \/ LegacyDetectReturn

\* both orchestrators over the same detectors: calls of the override-aware
\* one, then calls of the override-unaware one
SpecLegacy == InitLegacy /\ [][NextLegacy]_vars

\* ----------------------------------------------------------- specification

Next ==
    \/ Detect
    \/ DetectOCI
    \/ DetectCRI
    \/ DetectPodman
    \/ DetectReturn
    \/ detectOverride

Spec == Init /\ [][Next]_vars

NextEnv ==
    \/ NewDetector
    \/ Setenv
    \/ Next

\* a Detector built by NewDetector in a changing environment
SpecEnv == InitEnv /\ [][NextEnv]_vars

TypeOK ==
    /\ pc \in {"new", "idle", "oci", "cri", "podman", "return", "override", "done"}
    /\ Len(result) <= 1
    /\ Len(calls) <= 3

\* ------------------------------------------------------------------ claims

\* a normal-mode call has returned
NormalDone == pc = "done" /\ override = ""

\* an override-mode call has returned
OverrideDone == pc = "done" /\ override # ""

Configured(f) == Field(f) # "nil"

Called(f) == Len(rets[f]) > 0

Ret(f) == rets[f][1]

Failed(f) == Called(f) /\ Ret(f).err # NoErr

Succeeded(f) == Called(f) /\ Ret(f).err = NoErr

RECURSIVE Flatten(_)
Flatten(ss) == IF ss = <<>> THEN <<>> ELSE Head(ss) \o Flatten(Tail(ss))

\* the runtimes of the detectors that succeeded, in declared family order
Merged == Flatten([i \in 1..3 |-> IF Succeeded(Families[i]) THEN Ret(Families[i]).rts ELSE <<>>])

\* the errors of the detectors that failed, in declared family order
Failures == Flatten([i \in 1..3 |-> IF Failed(Families[i]) THEN <<Ret(Families[i]).err>> ELSE <<>>])

Range(s) == {s[i] : i \in DOMAIN s}

Count(s, x) == Cardinality({i \in DOMAIN s : s[i] = x})

\* s and t hold the same elements the same number of times
SameElements(s, t) ==
    /\ Len(s) = Len(t)
    /\ \A x \in Range(s) \cup Range(t) : Count(s, x) = Count(t, x)

KnownNames == {"runc", "crun", "youki", "containerd", "crio", "podman", "docker"}

\* the family a supported override name belongs to, as the claims give it
RequiredFamily(name) ==
    CASE name \in {"runc", "crun", "youki"} -> "OCI"
      [] name \in {"containerd", "crio"} -> "CRI"
      [] name = "podman" -> "Podman"
      [] OTHER -> "none"

EmptyResult == [Runtimes |-> <<>>, Selected |-> <<>>, Warnings |-> <<>>]

\* C1: in normal mode, when no successful detector returned a runtime and at
\* least one configured detector failed, Detect returns a nil result and, as
\* its error, the error of the first detector that failed in the order OCI,
\* CRI, Podman.
C1_FirstFailureEscalated ==
    (NormalDone /\ Merged = <<>> /\ \E f \in FamilySet : Configured(f) /\ Failed(f))
        => /\ result = <<>>
           /\ err = Failures[1]

\* reached: OCI succeeded with zero runtimes, CRI and Podman failed with
\* different errors, and the call returned CRI's error
C1_Witness ==
    /\ NormalDone
    /\ Succeeded("OCI") /\ Ret("OCI").rts = <<>>
    /\ Failed("CRI") /\ Failed("Podman")
    /\ Ret("CRI").err # Ret("Podman").err
    /\ result = <<>>
    /\ err = Ret("CRI").err

\* C2: in normal mode, when some detector returned one or more runtimes without
\* an error, Detect succeeds, the result's runtimes are exactly the runtimes of
\* the detectors that succeeded, and the warnings are the errors of the failed
\* detectors, one each, in the order OCI, CRI, Podman.
C2_PartialFailureTolerated ==
    (NormalDone /\ \E f \in FamilySet : Succeeded(f) /\ Len(Ret(f).rts) >= 1)
        => /\ err = NoErr
           /\ Len(result) = 1
           /\ SameElements(result[1].Runtimes, Merged)
           /\ result[1].Warnings = Failures

\* reached: a detector failed while returning a runtime next to its error,
\* another found a runtime, and the call succeeded with one warning
C2_Witness ==
    /\ NormalDone
    /\ \E f \in FamilySet : Failed(f) /\ Len(Ret(f).rts) >= 1
    /\ \E f \in FamilySet : Succeeded(f) /\ Len(Ret(f).rts) >= 1
    /\ Len(result) = 1
    /\ Len(result[1].Warnings) >= 1
    /\ Len(result[1].Runtimes) = Len(Merged)

\* C3: a normal-mode call invokes every configured detector exactly once, in
\* the order OCI, CRI, Podman, whatever the earlier detectors returned.
C3_EveryConfiguredDetectorInvoked ==
    NormalDone
        => /\ calls = SelectSeq(Families, Configured)
           /\ \A f \in FamilySet : Len(rets[f]) = (IF Configured(f) THEN 1 ELSE 0)

\* reached: the OCI detector failed and CRI and Podman were still invoked
C3_Witness ==
    /\ NormalDone
    /\ Failed("OCI")
    /\ calls = <<"OCI", "CRI", "Podman">>

\* C4: in every returned result, of either mode, Selected is non-nil exactly
\* when Runtimes is non-empty, and then it is Runtimes[0].
C4_SelectedIsFirst ==
    (pc = "done" /\ Len(result) = 1)
        => /\ (result[1].Selected # <<>>) <=> (Len(result[1].Runtimes) > 0)
           /\ Len(result[1].Runtimes) > 0 => result[1].Selected = <<result[1].Runtimes[1]>>

\* reached: a normal-mode result with several different runtimes
C4_Witness ==
    /\ NormalDone
    /\ Len(result) = 1
    /\ Len(result[1].Runtimes) >= 2
    /\ result[1].Runtimes[1] # result[1].Runtimes[Len(result[1].Runtimes)]
    /\ result[1].Selected = <<result[1].Runtimes[1]>>

\* the entries of s with priority p, in order
OfPriority(s, p) == SelectSeq(s, LAMBDA rt : rt.Priority = p)

\* position of a name in the binary family's candidate list
CandidateIndex(name) == CHOOSE i \in 1..Len(runtimeNames) : runtimeNames[i] = name

\* C5: the runtimes of a normal-mode result are in descending priority, and the
\* runtimes of one priority stand in the order in which they were detected
\* (family order, then the detector's own order; runc, crun, youki for the
\* repository's binary-family detector).
C5_StableDescendingSort ==
    (NormalDone /\ Len(result) = 1)
        => LET R == result[1].Runtimes
           IN  /\ \A i, j \in DOMAIN R : i < j => R[i].Priority >= R[j].Priority
               /\ \A p \in {rt.Priority : rt \in Range(R) \cup Range(Merged)} :
                      OfPriority(R, p) = OfPriority(Merged, p)
               /\ oci = "oci" =>
                      \A i, j \in DOMAIN R :
                          (i < j /\ R[i].Type = TypeOCI /\ R[j].Type = TypeOCI)
                              => CandidateIndex(R[i].Name) < CandidateIndex(R[j].Name)

\* reached: all three families found runtimes, two binary-family runtimes tie,
\* and the socket-CRI runtime detected after them is first
C5_Witness ==
    /\ NormalDone
    /\ Len(result) = 1
    /\ Len(Merged) >= 4
    /\ Merged[1].Priority = PriorityOCI /\ Merged[2].Priority = PriorityOCI
    /\ Merged[1] # Merged[2]
    /\ result[1].Runtimes[1].Priority = PriorityCRI
    /\ result[1].Runtimes[Len(Merged)].Priority = PriorityPodman
    /\ result[1].Runtimes # Merged

\* C6: in normal mode, when no detector failed and none returned a runtime
\* (also when no detector is configured), Detect returns a non-nil result with
\* empty runtimes, empty warnings and nil Selected, and a nil error.
C6_NothingFoundIsSuccess ==
    (NormalDone /\ Merged = <<>> /\ \A f \in FamilySet : ~Failed(f))
        => /\ err = NoErr
           /\ result = <<EmptyResult>>

\* reached: configured detectors ran, none failed, none found anything
C6_Witness ==
    /\ NormalDone
    /\ Succeeded("OCI") /\ Succeeded("CRI")
    /\ Merged = <<>>
    /\ result = <<EmptyResult>>
    /\ err = NoErr

\* C7: in override mode, when the required detector is configured and returns
\* without error, the result's runtimes are the returned runtimes named like
\* the override, in the detector's order, and Selected is the first of them
\* (exactly one runtime when the repository's binary-family detector found the
\* binary); with no such runtime Detect returns a nil result and the "runtime
\* not found" error.
C7_OverrideFiltersByName ==
    (OverrideDone /\ RequiredFamily(override) \in FamilySet
       /\ Configured(RequiredFamily(override)) /\ Succeeded(RequiredFamily(override)))
        => LET matches == SelectSeq(Ret(RequiredFamily(override)).rts,
                                    LAMBDA rt : rt.Name = override)
           IN  IF matches = <<>>
               THEN /\ result = <<>>
                    /\ err = <<"runtime not found on system", override>>
               ELSE /\ err = NoErr
                    /\ Len(result) = 1
                    /\ result[1].Runtimes = matches
                    /\ result[1].Selected = <<matches[1]>>
                    /\ oci = "oci" /\ RequiredFamily(override) = "OCI" => Len(matches) = 1

\* reached: the detector returned the named runtime together with another one,
\* and only the named one is in the result
C7_Witness ==
    /\ OverrideDone
    /\ Len(result) = 1
    /\ Succeeded(RequiredFamily(override))
    /\ Len(Ret(RequiredFamily(override)).rts) > Len(result[1].Runtimes)
    /\ result[1].Selected[1].Name = override

\* C8: with an override that is not one of the known names, Detect returns a
\* nil result and the "invalid value" error, and the call invokes no detector.
C8_UnknownOverrideRejected ==
    (override # "" /\ override \notin KnownNames)
        => /\ calls = <<>>
           /\ \A f \in FamilySet : ~Called(f)
           /\ pc = "done" => (result = <<>> /\ err = <<"invalid OTC_RUNTIME value", override>>)

\* reached: an unknown name was rejected although a detector was supplied
C8_Witness ==
    /\ OverrideDone
    /\ override = "RUNC"
    /\ oci # "nil"
    /\ err = <<"invalid OTC_RUNTIME value", "RUNC">>

\* C9: with an override whose family's detector was not supplied, Detect
\* returns a nil result and the "detector not configured" error and invokes no
\* detector, also when other detectors are configured.
C9_MissingDetectorRejected ==
    (override # "" /\ RequiredFamily(override) \in FamilySet
       /\ ~Configured(RequiredFamily(override)))
        => /\ calls = <<>>
           /\ \A f \in FamilySet : ~Called(f)
           /\ pc = "done" => /\ result = <<>>
                             /\ err = <<"detector not configured",
                                        RequiredFamily(override), override>>

\* reached: containerd was asked for, no CRI detector was supplied, an OCI
\* detector was, and the call failed
C9_Witness ==
    /\ OverrideDone
    /\ override = RNContainerd
    /\ cri = "nil" /\ oci # "nil" /\ podman # "nil"
    /\ result = <<>>
    /\ err[1] = "detector not configured"

\* C10: with the override docker, Detect returns a nil result and the "not
\* supported" error and invokes no detector, whichever detectors are supplied.
C10_DockerNotSupported ==
    override = "docker"
        => /\ calls = <<>>
           /\ \A f \in FamilySet : ~Called(f)
           /\ pc = "done" => (result = <<>> /\ err = <<"docker runtime not yet supported">>)

\* reached: docker was asked for with all three detectors supplied
C10_Witness ==
    /\ OverrideDone
    /\ override = RNDocker
    /\ oci # "nil" /\ cri # "nil" /\ podman # "nil"
    /\ result = <<>>
    /\ err = <<"docker runtime not yet supported">>

\* C11: in override mode with a recognized, supported name, a call invokes at
\* most once the detector of the name's family (OCI for runc, crun, youki; CRI
\* for containerd, crio; Podman for podman) and never one of the other two.
C11_OnlyTheFamilyDetectorInvoked ==
    (override # "" /\ RequiredFamily(override) \in FamilySet)
        => /\ calls \in {<<>>, <<RequiredFamily(override)>>}
           /\ \A f \in FamilySet :
                  Len(rets[f]) <= (IF f = RequiredFamily(override) THEN 1 ELSE 0)

\* reached: crio was asked for with all three detectors supplied, and only
\* the CRI detector was invoked
C11_Witness ==
    /\ OverrideDone
    /\ override = RNCRIO
    /\ oci # "nil" /\ cri # "nil" /\ podman # "nil"
    /\ calls = <<"CRI">>
    /\ Called("CRI") /\ ~Called("OCI") /\ ~Called("Podman")

\* C20: in override mode, when the invoked detector returns an error, Detect
\* returns a nil result and the detector's error wrapped in "failed to detect
\* runtime <name>" (not the "runtime not found" error, not a result with a
\* warning); no result of an override-mode call carries warnings.
C20_OverrideFailureIsHard ==
    /\ (OverrideDone /\ RequiredFamily(override) \in FamilySet
          /\ Failed(RequiredFamily(override)))
           => /\ result = <<>>
              /\ err = <<"failed to detect runtime", override>>
                           \o Ret(RequiredFamily(override)).err
              /\ err # <<"runtime not found on system", override>>
    /\ (OverrideDone /\ Len(result) = 1) => result[1].Warnings = <<>>

\* reached: containerd was asked for and the CRI detector reported that the
\* socket was not found
C20_Witness ==
    /\ OverrideDone
    /\ override = RNContainerd
    /\ Failed("CRI")
    /\ Ret("CRI").err = <<"containerd socket not found">>
    /\ result = <<>>
    /\ err = <<"failed to detect runtime", RNContainerd, "containerd socket not found">>

\* standard outputs in which no token follows a "version" token
UnparsableStdouts == {OutNoKeyword, OutKeywordLast, <<>>}

\* the candidate is on the search path, but its version query exits non-zero
\* or prints nothing parsable
BrokenCandidate(h, name) ==
    /\ h[name].resolved
    /\ ~h[name].exitOK \/ h[name].stdout \in UnparsableStdouts

\* a normal-mode call has returned in which the repository's binary-family
\* detector met a broken candidate
BrokenCandidateSeen ==
    /\ NormalDone
    /\ oci = "oci"
    /\ Len(probed) = 1
    /\ \E name \in {RNRunc, RNCrun, RNYouki} : BrokenCandidate(probed[1], name)

\* the errors of the socket-family detectors that failed, in declared order
SocketFailures ==
    (IF Failed("CRI") THEN <<Ret("CRI").err>> ELSE <<>>)
        \o (IF Failed("Podman") THEN <<Ret("Podman").err>> ELSE <<>>)

\* C14 as stated: in normal mode a binary-family candidate that is found but
\* whose version query exits non-zero or is unparsable is recorded as a
\* warning of the result, or makes the call fail when nothing else was found.
C14_BrokenCandidateIsWarning ==
    BrokenCandidateSeen
        => \/ Len(result) = 1 /\ Len(result[1].Warnings) > Len(SocketFailures)
           \/ result = <<>> /\ err # NoErr

\* C14 as amended: such a candidate is skipped silently. The binary-family
\* detector returns no error, the candidate is no runtime of the result, the
\* warnings are exactly the failures of the other detectors, and the call
\* fails only with the first failure of another detector.
C14_BrokenCandidateIsSkipped ==
    BrokenCandidateSeen
        => /\ Succeeded("OCI")
           /\ \A rt \in Range(Ret("OCI").rts) : ~BrokenCandidate(probed[1], rt.Name)
           /\ Len(result) = 1 =>
                  /\ result[1].Warnings = SocketFailures
                  /\ \A rt \in Range(result[1].Runtimes) :
                         rt.Type = TypeOCI => ~BrokenCandidate(probed[1], rt.Name)
           /\ result = <<>> => (SocketFailures # <<>> /\ err = SocketFailures[1])

\* reached: runc exits non-zero, crun prints no version, nothing else was
\* found and nothing else failed, and the call returned an empty result
C14_Witness ==
    /\ BrokenCandidateSeen
    /\ probed[1][RNRunc].resolved /\ ~probed[1][RNRunc].exitOK
    /\ probed[1][RNCrun].resolved /\ probed[1][RNCrun].stdout = OutNoKeyword
    /\ probed[1][RNCrun].exitOK
    /\ result = <<EmptyResult>>
    /\ err = NoErr

\* the override an OTC_RUNTIME state stands for
ExpectedOverride(e) ==
    CASE e \in {EnvUnset, EnvEmpty, EnvBlank} -> ""
      [] e \in {EnvRunc, EnvRuncPadded} -> "runc"
      [] e = EnvCrioPadded -> "crio"
      [] e = EnvInnerSpace -> "a b"

\* C12: the override is the trimmed OTC_RUNTIME value read by NewDetector (the
\* empty string for an unset, empty or blank variable); no other step changes
\* it, least of all a change of the environment; and a Detect call runs in
\* normal mode exactly when the captured override is empty. (A step that ends
\* with pc = "idle" and leaves the environment alone is a NewDetector step.)
C12_OverrideCapturedOnce ==
    [][/\ (pc' = "idle" /\ env' = env) => override' = ExpectedOverride(env)
       /\ (pc' # "idle" \/ env' # env) => override' = override
       /\ (pc \in {"idle", "done"} /\ pc' \notin {"idle", "done"})
              => pc' = (IF override = "" THEN "oci" ELSE "override")
       /\ (pc' # pc /\ pc' = "oci") => override = ""
       /\ (pc' # pc /\ pc' = "override") => override # ""]_vars

\* reached: a Detector built while OTC_RUNTIME was "  runc  " has completed an
\* override call for runc after the variable was unset
C12_Witness ==
    /\ pc = "done"
    /\ override = "runc"
    /\ env = EnvUnset
    /\ calls = <<"OCI">>

\* the version a modelled standard output carries after its "version" token
ExpectedVersion(stdout) ==
    CASE stdout = OutGood -> "1.2"
      [] stdout = OutFolded -> "3"
      [] OTHER -> ""

\* the candidate resolves, its subprocess exits with status 0 and prints a version
Usable(h, name) ==
    /\ h[name].resolved
    /\ ~h[name].hangs
    /\ h[name].exitOK
    /\ ExpectedVersion(h[name].stdout) # ""

\* C13: ociDetector.Detect returns a nil error on every host, and its runtimes
\* are, in the order runc, crun, youki, one runtime for each candidate that
\* resolves and yields a non-empty parsed version (type OCI, priority 70, the
\* candidate's name, the parsed version, the resolved path) and nothing for
\* any other candidate.
C13_OciDetectNeverFails ==
    opc = "done"
        => LET usable == SelectSeq(<<"runc", "crun", "youki">>, LAMBDA n : Usable(ohost, n))
           IN  /\ Len(oret) = 1
               /\ oret[1].err = NoErr
               /\ Len(oret[1].rts) = Len(usable)
               /\ \A i \in 1..Len(usable) :
                      /\ oret[1].rts[i] =
                            [Name |-> usable[i], Type |-> "oci",
                             Version |-> ExpectedVersion(ohost[usable[i]].stdout),
                             Path |-> LookPath(usable[i]), Priority |-> 70]
                      /\ oret[1].rts[i].Version # ""
                      /\ oret[1].rts[i].Path # ""

\* reached: runc exits non-zero, crun prints no version, youki is fine, and
\* the call returned youki alone without an error
C13_Witness ==
    /\ opc = "done"
    /\ ohost[RNRunc].resolved /\ ~ohost[RNRunc].exitOK
    /\ ohost[RNCrun].resolved /\ ohost[RNCrun].exitOK /\ ohost[RNCrun].stdout = OutKeywordLast
    /\ Usable(ohost, RNYouki)
    /\ Len(oret[1].rts) = 1
    /\ oret[1].rts[1].Name = RNYouki
    /\ oret[1].err = NoErr

\* the stepwise ociDetector.Detect and the operator ociDetect agree
OciStepsAgree == opc = "done" => oret = <<ociDetect(ohost)>>

\* C19: a call of ociDetector.Detect that has started returns, also when the
\* version subprocess of a resolved candidate never exits.
C19_OciDetectReturns == (opc = "scan") ~> (opc = "done")

\* the first of the configured paths that holds a socket, 0 if none does
FirstSocket(h) ==
    IF \E i \in 1..3 : h[i].fs = "socket"
    THEN CHOOSE i \in 1..3 : h[i].fs = "socket" /\ \A j \in 1..(i - 1) : h[j].fs # "socket"
    ELSE 0

\* C15: when a path holds a socket and the version query on the first such
\* path fails, ContainerdDetector.Detect returns the "version query failed"
\* error and no runtime, and has tried no other path, reachable or not.
C15_VersionFailureIsError ==
    (cpc = "done" /\ FirstSocket(shost) # 0 /\ shost[FirstSocket(shost)].rpc # "ok")
        => /\ Len(cret) = 1
           /\ cret[1].rts = <<>>
           /\ Len(cret[1].err) >= 1
           /\ cret[1].err[1] = "failed to get containerd version from CRI"
           /\ cdials = <<"unix://" \o socketPaths[FirstSocket(shost)]>>

\* reached: the deadline expired on the socket at the first path, a reachable
\* socket sits at the second path, and the call failed after one attempt
C15_Witness ==
    /\ cpc = "done"
    /\ shost[1].fs = "socket" /\ shost[1].rpc = "deadline exceeded"
    /\ shost[2].fs = "socket" /\ shost[2].rpc = "ok"
    /\ cret[1].rts = <<>>
    /\ cret[1].err[1] = "failed to get containerd version from CRI"
    /\ Len(cdials) = 1

\* C16: findSocket returns the first configured path that holds a socket,
\* passing over absent paths, regular files and other entries alike; when no
\* path holds a socket it returns an error and the empty path, and Detect
\* fails with "socket not found", no runtime and no connection attempt.
C16_FirstSocketFound ==
    Len(cfound) = 1
        => IF FirstSocket(shost) # 0
           THEN /\ cfound[1].err = NoErr
                /\ cfound[1].path = socketPaths[FirstSocket(shost)]
           ELSE /\ cfound[1].err # NoErr
                /\ cfound[1].path = ""
                /\ cdials = <<>>
                /\ cpc = "done"
                /\ Len(cret) = 1
                /\ cret[1].rts = <<>>
                /\ cret[1].err[1] = "containerd socket not found"

\* reached: a regular file at the first path, nothing at the second, a socket
\* at the third, which findSocket returned
C16_Witness ==
    /\ Len(cfound) = 1
    /\ shost[1].fs = "file"
    /\ shost[2].fs = "absent"
    /\ shost[3].fs = "socket"
    /\ cfound[1].path = "/run/k3s/containerd/containerd.sock"
    /\ cfound[1].err = NoErr

FirstKeyword(toks) ==
    IF \E i \in 1..Len(toks) : IsVersionWord(toks[i])
    THEN CHOOSE i \in 1..Len(toks) :
             IsVersionWord(toks[i]) /\ \A j \in 1..(i - 1) : ~IsVersionWord(toks[j])
    ELSE 0

\* the token after the first keyword, "" without a keyword or a token after it
ExpectedParse(toks) ==
    IF FirstKeyword(toks) = 0 \/ FirstKeyword(toks) = Len(toks)
    THEN ""
    ELSE TokenString(toks[FirstKeyword(toks) + 1])

\* C18: parseVersion returns the whitespace-separated token that follows the
\* first token equal to "version" in any casing, and "" when there is no such
\* token or it is the last one; the five example outputs give "1.1.12",
\* "1.2.3", "", "" and "".
C18_TokenAfterVersion ==
    Len(pout) = 1
        => /\ pout[1] = ExpectedParse(pin[1].tokens)
           /\ pin[1].text = ExRuncVersion => pout[1] = "1.1.12"
           /\ pin[1].text = ExCapitalised => pout[1] = "1.2.3"
           /\ pin[1].text \in {ExNoKeyword, ExKeywordLast, ExEmpty} => pout[1] = ""

\* reached: "runtime Version 1.2.3" parsed to "1.2.3"
C18_Witness ==
    /\ Len(pout) = 1
    /\ pin[1].text = ExCapitalised
    /\ pout[1] = "1.2.3"

\* C21: with an empty override, a call of the override-aware Detect and a
\* call of the override-unaware Detect on the same three detectors, to which
\* the detectors returned the same, invoked the same detectors in the same
\* order and returned the same runtimes, Selected, warnings and error.
C21_SameAsOverrideUnaware ==
    (pc = "done" /\ lpc = "done" /\ override = "" /\ lrets = rets)
        => /\ lcalls = calls
           /\ (lresult = <<>>) <=> (result = <<>>)
           /\ lresult # <<>>
                  => /\ lresult[1].Runtimes = result[1].Runtimes
                     /\ lresult[1].Selected = result[1].Selected
                     /\ lresult[1].Warnings = result[1].Warnings
           /\ lerr = err

\* reached: both calls done with an empty override on three detectors, one
\* of which failed and two of which reported runtimes in ascending priority
C21_Witness ==
    /\ pc = "done"
    /\ lpc = "done"
    /\ override = ""
    /\ lrets = rets
    /\ calls = <<"OCI", "CRI", "Podman">>
    /\ lcalls = calls
    /\ lresult # <<>>
    /\ Len(lresult[1].Warnings) = 1
    /\ Len(lresult[1].Runtimes) >= 2
    /\ lresult[1].Runtimes[1].Priority > lresult[1].Runtimes[2].Priority
    /\ rets["OCI"][1].rts # <<>>
    /\ rets["CRI"][1].rts # <<>>

====
